---------------------------- MODULE Spec2Model ----------------------------
(***************************************************************************)
(* The request lifecycle of the ChatConnect AI backend (FastAPI):          *)
(* the logging middleware and global exception handler of api/main.py,     *)
(* the header dependencies, the request-body validation of                 *)
(* models/requests.py and the route handlers of api/routes.py, with the    *)
(* Server-Sent-Events generator of chat_stream modelled statement by       *)
(* statement between its suspension points.                                *)
(*                                                                         *)
(* Text is modelled as a sequence of one-character strings, so that        *)
(* slicing, prefix tests, formatting and framing are computed as the code  *)
(* computes them.  An optional value (a header that may be absent, a       *)
(* variable not yet assigned) is a sequence of length at most one: << >>   *)
(* is None / absent, << v >> is the value v.                               *)
(***************************************************************************)
EXTENDS Integers, Sequences, FiniteSets, TLC

\* The tasks that handle requests.  A request is handled by a task of its own,
\* and the handlers keep no state outside the task (routes.py has no module
\* state but the logger), so one request is followed from its arrival to the
\* end of its response.  Every action takes the task as a parameter.
Tasks == {1}

\* The number of distinct values uuid.uuid4() returns in a run
NumUuids == 2

-----------------------------------------------------------------------------
(* Text literals of the source *)

\* routes.py:38  x_api_key.startswith("pk_")
PK_PREFIX ==
    <<"p", "k", "_" >>

\* settings.py:61  internal_api_secret: str = "internal-secret"
DEFAULT_SECRET ==
    <<"i", "n", "t", "e", "r", "n", "a", "l", "-", "s", "e", "c", "r", "e",
      "t" >>

\* routes.py:165-166  the text before {request.message[:30]}
STREAM_HEAD ==
    <<"T", "h", "i", "s", " ", "i", "s", " ", "a", " ", "m", "o", "c", "k",
      " ", "s", "t", "r", "e", "a", "m", "i", "n", "g", " ", "r", "e", "s",
      "p", "o", "n", "s", "e", ".", " ", "Y", "o", "u", "r", " ", "m", "e",
      "s", "s", "a", "g", "e", " ", "w", "a", "s", ":", " ", "'" >>

\* routes.py:166-167  the text after {request.message[:30]}
STREAM_TAIL ==
    <<".", ".", ".", "'", "\n", "\n", "T", "h", "e", " ", "a", "c", "t", "u",
      "a", "l", " ", "i", "m", "p", "l", "e", "m", "e", "n", "t", "a", "t",
      "i", "o", "n", " ", "w", "i", "l", "l", " ", "s", "t", "r", "e", "a",
      "m", " ", "t", "o", "k", "e", "n", "s", " ", "f", "r", "o", "m", " ",
      "t", "h", "e", " ", "L", "L", "M", " ", "i", "n", " ", "r", "e", "a",
      "l", "-", "t", "i", "m", "e", "." >>

\* routes.py:100  the text before {request.message[:50]}
CHAT_HEAD ==
    <<"T", "h", "i", "s", " ", "i", "s", " ", "a", " ", "m", "o", "c", "k",
      " ", "r", "e", "s", "p", "o", "n", "s", "e", ".", " ", "Y", "o", "u",
      "r", " ", "m", "e", "s", "s", "a", "g", "e", " ", "w", "a", "s", ":",
      " ", "'" >>

\* routes.py:100-101  "...'\n\nClient tier: "
CHAT_TIER ==
    <<".", ".", ".", "'", "\n", "\n", "C", "l", "i", "e", "n", "t", " ", "t",
      "i", "e", "r", ":", " " >>

\* routes.py:101-102  "\nModel: "
CHAT_MODEL ==
    <<"\n", "M", "o", "d", "e", "l", ":", " " >>

\* routes.py:102-106  the text after {client_config['model']}
CHAT_TAIL ==
    <<"\n", "\n", "T", "h", "e", " ", "a", "c", "t", "u", "a", "l", " ", "i",
      "m", "p", "l", "e", "m", "e", "n", "t", "a", "t", "i", "o", "n", " ",
      "w", "i", "l", "l", ":", "\n", "1", ".", " ", "S", "e", "a", "r", "c",
      "h", " ", "y", "o", "u", "r", " ", "k", "n", "o", "w", "l", "e", "d",
      "g", "e", " ", "b", "a", "s", "e", " ", "f", "o", "r", " ", "r", "e",
      "l", "e", "v", "a", "n", "t", " ", "c", "o", "n", "t", "e", "x", "t",
      "\n", "2", ".", " ", "G", "e", "n", "e", "r", "a", "t", "e", " ", "a",
      " ", "r", "e", "s", "p", "o", "n", "s", "e", " ", "u", "s", "i", "n",
      "g", " ", "t", "h", "e", " ", "a", "p", "p", "r", "o", "p", "r", "i",
      "a", "t", "e", " ", "L", "L", "M", "\n", "3", ".", " ", "R", "e", "t",
      "u", "r", "n", " ", "s", "o", "u", "r", "c", "e", "s", " ", "f", "o",
      "r", " ", "t", "h", "e", " ", "i", "n", "f", "o", "r", "m", "a", "t",
      "i", "o", "n", " ", "p", "r", "o", "v", "i", "d", "e", "d" >>

\* routes.py:45-46  the mock client configuration
TIER_FREE ==
    <<"f", "r", "e", "e" >>

MODEL_MINI ==
    <<"g", "p", "t", "-", "4", "o", "-", "m", "i", "n", "i" >>

\* routes.py:159,174,181,184,197  the pieces of an SSE frame
SSE_EVENT ==
    <<"e", "v", "e", "n", "t", ":", " " >>

SSE_DATA ==
    <<"\n", "d", "a", "t", "a", ":", " " >>

SSE_END ==
    <<"\n", "\n" >>

EV_START ==
    <<"s", "t", "a", "r", "t" >>

EV_CHUNK ==
    <<"c", "h", "u", "n", "k" >>

EV_SOURCES ==
    <<"s", "o", "u", "r", "c", "e", "s" >>

EV_DONE ==
    <<"d", "o", "n", "e" >>

EV_ERROR ==
    <<"e", "r", "r", "o", "r" >>

\* routes.py:184  the payload of the done event
DONE_SENTINEL ==
    <<"[", "D", "O", "N", "E", "]" >>

\* routes.py:181  json.dumps([])
EMPTY_SOURCES ==
    <<"[", "]" >>

\* routes.py:197  json.dumps({'code': 'STREAM_ERROR', 'message': ...}) around
\* the escaped message
ERR_HEAD ==
    <<"{", "\"", "c", "o", "d", "e", "\"", ":", " ", "\"", "S", "T", "R",
      "E", "A", "M", "_", "E", "R", "R", "O", "R", "\"", ",", " ", "\"", "m",
      "e", "s", "s", "a", "g", "e", "\"", ":", " ", "\"" >>

ERR_TAIL ==
    <<"\"", "}" >>

\* main.py:94  f"req_{int(start_time * 1000)}"
REQ_PREFIX ==
    <<"r", "e", "q", "_" >>

\* requests.py:14  a session id that matches the pattern
SID_OK ==
    <<"1", "2", "3", "e", "4", "5", "6", "7", "-", "e", "8", "9", "b", "-",
      "1", "2", "d", "3", "-", "a", "4", "5", "6", "-", "4", "2", "6", "6",
      "1", "4", "1", "7", "4", "0", "0", "0" >>

-----------------------------------------------------------------------------
(* Program constants *)

\* routes.py:171
chunk_size == 10

\* routes.py:166  request.message[:30]
STREAM_ECHO == 30

\* routes.py:100  request.message[:50]
CHAT_ECHO == 50

\* requests.py:13  Field(..., min_length=1, max_length=2000)
MIN_LENGTH == 1

MAX_LENGTH == 2000

\* requests.py:14  pattern=r"^[a-f0-9-]{36}$"
SID_LENGTH == 36

SID_CHARS ==
    {"a", "b", "c", "d", "e", "f",
     "0", "1", "2", "3", "4", "5", "6", "7", "8", "9", "-"}

\* requests.py:24  pattern=r"^(pdf|docx|txt|csv)$"
FILE_TYPES ==
    { <<"p", "d", "f">>, <<"d", "o", "c", "x">>,
      <<"t", "x", "t">>, <<"c", "s", "v">> }

-----------------------------------------------------------------------------
(* Text operations *)

Min(a, b) == IF a < b THEN a ELSE b

\* Python's s[i:j] for 0 <= i <= j: characters i+1 .. j, clamped to the text.
Slice(s, i, j) == SubSeq(s, i + 1, Min(j, Len(s)))

\* Python's s.startswith(p)
StartsWith(s, p) == Len(s) >= Len(p) /\ SubSeq(s, 1, Len(p)) = p

\* Python's str(n) for an integer n >= 0
RECURSIVE Digits(_)
Digits(n) ==
    LET d == <<"0", "1", "2", "3", "4", "5", "6", "7", "8", "9">>[(n % 10) + 1]
    IN  IF n < 10 THEN <<d>> ELSE Digits(n \div 10) \o <<d>>

\* json.dumps of a string, without the surrounding quotes: the quote, the
\* backslash and the newline are escaped.
RECURSIVE JsonEscape(_)
JsonEscape(s) ==
    IF s = << >> THEN << >>
    ELSE LET c == Head(s)
             e == IF c = "\"" THEN <<"\\", "\"">>
                  ELSE IF c = "\\" THEN <<"\\", "\\">>
                  ELSE IF c = "\n" THEN <<"\\", "n">>
                  ELSE <<c>>
         IN  e \o JsonEscape(Tail(s))

\* One Server-Sent-Events frame: f"event: {name}\ndata: {data}\n\n"
Frame(name, data) == SSE_EVENT \o name \o SSE_DATA \o data \o SSE_END

-----------------------------------------------------------------------------
(* Reading a frame back, by the framing of the stream: an `event:` line that
   names the event, a `data:` line that carries the payload, a blank line. *)

\* Position of the first newline of s, Len(s) + 1 when it has none.
LineEnd(s) ==
    IF \E k \in 1..Len(s) : s[k] = "\n"
    THEN CHOOSE k \in 1..Len(s) :
             s[k] = "\n" /\ \A j \in 1..(k - 1) : s[j] # "\n"
    ELSE Len(s) + 1

FirstLine(s) == SubSeq(s, 1, LineEnd(s) - 1)

AfterFirstLine(s) == SubSeq(s, LineEnd(s) + 1, Len(s))

\* The value of a line "field: value"
FieldValue(line, field) ==
    IF StartsWith(line, field) THEN SubSeq(line, Len(field) + 1, Len(line))
    ELSE << >>

\* The event a frame names: the value of its first line.
EventName(frame) == FieldValue(FirstLine(frame), SSE_EVENT)

\* The payload a frame carries: the value of its data line.
Payload(frame) == FieldValue(FirstLine(AfterFirstLine(frame)), Tail(SSE_DATA))

\* A frame is well formed when nothing but the blank line follows its data line.
WellFormed(frame) == AfterFirstLine(AfterFirstLine(frame)) = <<"\n">>

RECURSIVE Concat(_)
Concat(ss) == IF ss = << >> THEN << >> ELSE Head(ss) \o Concat(Tail(ss))

\* The subsequence of the elements of s that satisfy Test
RECURSIVE SelectNamed(_, _)
SelectNamed(frames, name) ==
    IF frames = << >> THEN << >>
    ELSE IF EventName(Head(frames)) = name
         THEN <<Head(frames)>> \o SelectNamed(Tail(frames), name)
         ELSE SelectNamed(Tail(frames), name)

-----------------------------------------------------------------------------
(* The requests the clients send *)

\* X-Request-ID: absent, present with a value
RequestIdHeaders == { << >>, << <<"a", "b", "c">> >> }

\* x-api-key: absent, empty, the bare prefix, a prefixed key, another prefix,
\* the prefix not at the start, the prefix in upper case
ApiKeyHeaders ==
    { << >>, << << >> >>, <<PK_PREFIX>>, <<PK_PREFIX \o <<"1">> >>,
      << <<"s", "k", "_", "1">> >>, << <<"x">> \o PK_PREFIX >>,
      << <<"P", "K", "_", "1">> >> }

OTHER_SECRET == <<"s", "3", "c", "r", "e", "t">>

\* The values the environment may configure as INTERNAL_API_SECRET
Secrets == { DEFAULT_SECRET, OTHER_SECRET }

\* X-Internal-Secret: absent, empty, each configurable secret, a secret with a
\* different first letter case, a secret followed by one more character
SecretHeaders ==
    { << >>, << << >> >>, <<DEFAULT_SECRET>>, <<OTHER_SECRET>>,
      << [DEFAULT_SECRET EXCEPT ![1] = "I"] >>, << DEFAULT_SECRET \o <<"x">> >> }

MESSAGE_TEXT == <<"h", "e", "l", "l", "o", " ">>

\* A message of n characters
Message(n) == [k \in 1..n |-> MESSAGE_TEXT[((k - 1) % Len(MESSAGE_TEXT)) + 1]]

\* Message lengths: empty, short, one that makes the streamed text a multiple
\* of chunk_size, the longest accepted, one longer
MessageLengths == { MIN_LENGTH - 1, 5, 9, MAX_LENGTH, MAX_LENGTH + 1 }

\* Session ids: well formed, one character short, one long, a character
\* outside [a-f0-9-]
SessionIds ==
    { SID_OK, SubSeq(SID_OK, 1, SID_LENGTH - 1), SID_OK \o <<"0">>,
      [SID_OK EXCEPT ![1] = "G"] }

FileTypeInputs == { <<"p", "d", "f">>, <<"c", "s", "v">>, <<"e", "x", "e">> }

\* The api_key query parameter of validate_client: absent, well formed, not
QueryApiKeys == { << >>, <<PK_PREFIX \o <<"1">> >>, << <<"b", "a", "d">> >> }

DOCUMENT_ID == <<"d", "o", "c", "1">>

BaseRequest ==
    [ endpoint |-> "root", x_request_id |-> << >>, x_api_key |-> << >>,
      x_internal_secret |-> << >>, message |-> << >>, session_id |-> << >>,
      document_id |-> << >>, file_type |-> << >>, api_key |-> << >> ]

PlainRequests ==
    { [BaseRequest EXCEPT !.endpoint = e, !.x_request_id = h] :
        e \in {"root", "health"}, h \in RequestIdHeaders }

ChatRequests ==
    { [BaseRequest EXCEPT !.endpoint = e, !.x_request_id = h, !.x_api_key = k,
                          !.message = Message(n), !.session_id = s] :
        e \in {"chat", "chat_stream"}, h \in RequestIdHeaders,
        k \in ApiKeyHeaders, n \in MessageLengths, s \in SessionIds }

InternalRequests ==
    { [BaseRequest EXCEPT !.endpoint = "process_document", !.x_request_id = h,
                          !.x_internal_secret = x, !.document_id = DOCUMENT_ID,
                          !.file_type = f] :
        h \in RequestIdHeaders, x \in SecretHeaders, f \in FileTypeInputs }
    \cup
    { [BaseRequest EXCEPT !.endpoint = "get_document_status",
                          !.x_request_id = h, !.x_internal_secret = x,
                          !.document_id = DOCUMENT_ID] :
        h \in RequestIdHeaders, x \in SecretHeaders }
    \cup
    { [BaseRequest EXCEPT !.endpoint = "validate_client", !.x_request_id = h,
                          !.x_internal_secret = x, !.api_key = q] :
        h \in RequestIdHeaders, x \in SecretHeaders, q \in QueryApiKeys }

Requests == PlainRequests \cup ChatRequests \cup InternalRequests

\* Readings of the clock, as int(time.time() * 1000)
ClockReadings == { 1234, 98765 }

\* The values uuid.uuid4() may return, as text
Uuids == { <<"u">> \o Digits(k) : k \in 1..NumUuids }

\* str(e) of the faults a statement may raise: plain text, and text with a
\* quote and a newline in it
FaultMessages == { <<"b", "o", "o", "m">>, <<"a", "\"", "\n", "b">> }

-----------------------------------------------------------------------------
(* State *)

VARIABLES
    settings,   \* the cached Settings object
    task        \* task[r]: the state of the task that handles request r

vars == <<settings, task>>

NoBody ==
    [ kind |-> "none", detail |-> "", errors |-> {}, response |-> << >>,
      session_id |-> << >>, trace_id |-> << >>, request_id |-> << >>,
      document_id |-> << >> ]

\* A response: the status, the media type, the X-Request-ID header (absent
\* until something sets it) and the body.
MakeResponse(status_code, media_type, body) ==
    [ status_code |-> status_code, media_type |-> media_type,
      x_request_id |-> << >>, body |-> body ]

JSONResponse(status_code, body) ==
    MakeResponse(status_code, "application/json", body)

\* The response FastAPI's handler for HTTPException builds: {"detail": detail}
HTTPExceptionResponse(status_code, detail) ==
    JSONResponse(status_code,
                 [NoBody EXCEPT !.kind = "http_exception", !.detail = detail])

\* The response FastAPI's handler for RequestValidationError builds
ValidationErrorResponse(errors) ==
    JSONResponse(422,
                 [NoBody EXCEPT !.kind = "validation_error", !.errors = errors])

LogEntry(event, id) ==
    [ event |-> event, id |-> id, status_code |-> 0, error |-> << >> ]

IdleTask ==
    [ pc |-> "idle",
      request |-> << >>,        \* the Request
      request_id |-> << >>,     \* request.state.request_id
      client_config |-> << >>,  \* what validate_api_key returned
      trace_id |-> << >>,       \* the handler's trace_id
      called |-> FALSE,         \* whether the route handler was called
      exc |-> << >>,            \* str(e) of the exception raised, if any
      fault_at |-> "none",      \* where it was raised
      response |-> << >>,       \* the response, once there is one
      log |-> << >>,            \* the entries logged for this request
      gen |-> "none",           \* where generate_stream is suspended
      i |-> 0,                  \* the loop variable of generate_stream
      connected |-> TRUE,       \* whether the client is still connected
      observed |-> FALSE,       \* whether the server has seen it disconnect
      events |-> << >> ]        \* the frames generate_stream has yielded

Init ==
    /\ settings \in [internal_api_secret : Secrets]
    /\ task = [r \in Tasks |-> IdleTask]

Req(r) == task[r].request[1]

Endpoint(r) == IF task[r].request = << >> THEN "none" ELSE Req(r).endpoint

-----------------------------------------------------------------------------
(* Dependencies and request validation *)

MockClientConfig ==
    [ client_id |-> <<"m", "o", "c", "k">>, tier |-> TIER_FREE,
      model |-> MODEL_MINI ]

Raise(status_code, detail) ==
    [ raised |-> TRUE, status_code |-> status_code, detail |-> detail,
      value |-> << >> ]

Return(value) ==
    [ raised |-> FALSE, status_code |-> 0, detail |-> "", value |-> <<value>> ]

\* `not x_api_key or not x_api_key.startswith("pk_")`
KeyRejected(x_api_key) == x_api_key = << >> \/ ~StartsWith(x_api_key, PK_PREFIX)

\* validate_api_key, called with the value of a header that is present
validate_api_key(x_api_key) ==
    IF KeyRejected(x_api_key) THEN Raise(401, "Invalid API key")
    ELSE Return(MockClientConfig)

\* The secret compared as a prefix of the header
SecretRejectedUnlessPrefix(x_internal_secret, secret) ==
    x_internal_secret = << >> \/ ~StartsWith(x_internal_secret[1], secret)

\* `x_internal_secret != settings.internal_api_secret`, the header being None
\* when absent
SecretRejected(x_internal_secret, secret) == x_internal_secret # <<secret>>

\* validate_internal_secret, called with the optional header
validate_internal_secret(x_internal_secret, secret) ==
    IF SecretRejected(x_internal_secret, secret)
    THEN Raise(401, "Invalid internal secret")
    ELSE Return(TRUE)

\* message: str = Field(..., min_length=1, max_length=2000)
MessageValid(message) == Len(message) >= MIN_LENGTH /\ Len(message) <= MAX_LENGTH

\* The session id checked for its length only
SessionIdLengthValid(session_id) == Len(session_id) = SID_LENGTH

\* session_id: str = Field(..., pattern=r"^[a-f0-9-]{36}$")
SessionIdValid(session_id) ==
    /\ Len(session_id) = SID_LENGTH
    /\ \A k \in 1..Len(session_id) : session_id[k] \in SID_CHARS

\* The fields of a ChatRequest body that fail validation
ChatRequestErrors(req) ==
    (IF MessageValid(req.message) THEN {} ELSE {"body.message"})
    \cup (IF SessionIdValid(req.session_id) THEN {} ELSE {"body.session_id"})

\* The fields of a ProcessDocumentRequest body that fail validation
ProcessDocumentRequestErrors(req) ==
    IF req.file_type \in FILE_TYPES THEN {} ELSE {"body.file_type"}

\* What resolving the route's parameters gives: the dependency's exception when
\* it raises one, else the validation errors collected, else the call of the
\* handler.  A dependency whose own required header is missing is not called;
\* the missing header is a validation error.
Solved(req, secret) ==
    LET e == req.endpoint
        external == e \in {"chat", "chat_stream"}
        internal ==
            e \in {"process_document", "get_document_status", "validate_client"}
        dep ==
            IF external /\ req.x_api_key # << >>
            THEN validate_api_key(req.x_api_key[1])
            ELSE IF internal
            THEN validate_internal_secret(req.x_internal_secret, secret)
            ELSE Return(TRUE)
        errors ==
            (IF external /\ req.x_api_key = << >>
             THEN {"header.x-api-key"} ELSE {})
            \cup (IF external THEN ChatRequestErrors(req) ELSE {})
            \cup (IF e = "process_document"
                  THEN ProcessDocumentRequestErrors(req) ELSE {})
            \cup (IF e = "validate_client" /\ req.api_key = << >>
                  THEN {"query.api_key"} ELSE {})
    IN  IF dep.raised
        THEN [ call |-> FALSE, config |-> << >>,
               response |-> <<HTTPExceptionResponse(dep.status_code, dep.detail)>> ]
        ELSE IF errors # {}
        THEN [ call |-> FALSE, config |-> << >>,
               response |-> <<ValidationErrorResponse(errors)>> ]
        ELSE [ call |-> TRUE,
               config |-> IF external THEN dep.value ELSE << >>,
               response |-> << >> ]

-----------------------------------------------------------------------------
(* The application shell: api/main.py *)

\* request.headers.get("X-Request-ID", f"req_{int(start_time * 1000)}")
RequestIdFor(header, now_ms) ==
    IF header = << >> THEN REQ_PREFIX \o Digits(now_ms) ELSE header[1]

\* log_requests up to `await call_next(request)`: the request id is taken from
\* the header or made from the clock, and stored in request.state.
log_requests(r, req, now_ms) ==
    /\ task[r].pc = "idle"
    /\ task' = [task EXCEPT ![r] =
            [@ EXCEPT !.pc = "call_next",
                      !.request = <<req>>,
                      !.request_id = <<RequestIdFor(req.x_request_id, now_ms)>>]]
    /\ UNCHANGED settings

\* The route is matched and its parameters resolved: dependencies, headers,
\* query and body.  The handler is called only when all of it succeeded.
solve_dependencies(r) ==
    /\ task[r].pc = "call_next"
    /\ LET s == Solved(Req(r), settings.internal_api_secret)
       IN  task' = [task EXCEPT ![r] =
               [@ EXCEPT !.pc = IF s.call THEN "handler" ELSE "response_ready",
                         !.called = s.call,
                         !.client_config = s.config,
                         !.response = s.response]]
    /\ UNCHANGED settings

\* What log_requests writes into the response it got from call_next
WithRequestId(response, request_id) ==
    [response EXCEPT !.x_request_id = <<request_id>>]

\* log_requests after call_next returned a response: the request is logged and
\* the request id is put into the response headers.  The response is then sent;
\* a streaming response starts iterating its generator.
log_requests_return(r) ==
    /\ task[r].pc = "response_ready"
    /\ LET t == task[r]
           rid == t.request_id[1]
           resp == t.response[1]
       IN  task' = [task EXCEPT ![r] =
               [@ EXCEPT !.pc = "sent",
                         !.log = Append(@, [LogEntry("http_request", rid)
                                     EXCEPT !.status_code = resp.status_code]),
                         !.response = <<WithRequestId(resp, rid)>>]]
    /\ UNCHANGED settings

\* The response global_exception_handler builds for an exception
InternalErrorResponse(request_id) ==
    JSONResponse(500,
        [NoBody EXCEPT !.kind = "internal_error", !.detail = "INTERNAL_ERROR",
                       !.request_id = <<request_id>>])

\* An exception left the handler: call_next raises it through log_requests,
\* whose remaining statements do not run, and global_exception_handler turns
\* it into the response that is sent.
global_exception_handler(r) ==
    /\ task[r].pc = "raised"
    /\ LET t == task[r]
           rid == IF t.request_id = << >>
                  THEN <<"u", "n", "k", "n", "o", "w", "n">>
                  ELSE t.request_id[1]
       IN  task' = [task EXCEPT ![r] =
               [@ EXCEPT !.pc = "sent",
                         !.log = Append(@, [LogEntry("unhandled_exception", rid)
                                     EXCEPT !.error = t.exc]),
                         !.response = <<InternalErrorResponse(rid)>>]]
    /\ UNCHANGED settings

\* GET /
root(r) ==
    /\ task[r].pc = "handler" /\ Endpoint(r) = "root"
    /\ task' = [task EXCEPT ![r] =
            [@ EXCEPT !.pc = "response_ready",
                      !.response = <<JSONResponse(200,
                          [NoBody EXCEPT !.kind = "banner"])>>]]
    /\ UNCHANGED settings

\* GET /health
health(r) ==
    /\ task[r].pc = "handler" /\ Endpoint(r) = "health"
    /\ task' = [task EXCEPT ![r] =
            [@ EXCEPT !.pc = "response_ready",
                      !.response = <<JSONResponse(200,
                          [NoBody EXCEPT !.kind = "health"])>>]]
    /\ UNCHANGED settings

-----------------------------------------------------------------------------
(* The route handlers: api/routes.py *)

\* A logger.info call before any try block raises: the exception leaves the
\* handler (chat line 84, chat_stream line 149, process_document line 232).
\* The trace id was generated before it.
handler_raises(r, uuid, msg) ==
    /\ task[r].pc = "handler"
    /\ Endpoint(r) \in {"chat", "chat_stream", "process_document"}
    /\ task' = [task EXCEPT ![r] =
            [@ EXCEPT !.pc = "raised", !.trace_id = <<uuid>>, !.exc = <<msg>>,
                      !.fault_at = "preamble"]]
    /\ UNCHANGED settings

\* The response text of chat
chat_response_text(message, config) ==
    CHAT_HEAD \o Slice(message, 0, CHAT_ECHO) \o CHAT_TIER \o config.tier
        \o CHAT_MODEL \o config.model \o CHAT_TAIL

\* The response given a trace id of its own
ChatResponseOwnTrace(response_text, session_id, trace_id) ==
    JSONResponse(200,
        [NoBody EXCEPT !.kind = "chat", !.response = response_text,
                       !.session_id = <<session_id>>,
                       !.trace_id = <<<<"u", "0">>>>])

\* ChatResponse(response=..., session_id=request.session_id, sources=[],
\* trace_id=trace_id)
ChatResponse(response_text, session_id, trace_id) ==
    JSONResponse(200,
        [NoBody EXCEPT !.kind = "chat", !.response = response_text,
                       !.session_id = <<session_id>>,
                       !.trace_id = <<trace_id>>])

\* What chat answers when its try block raised
ChatFailure(msg) ==
    HTTPExceptionResponse(500, "Failed to process chat request")

\* chat, to its first suspension point: the trace id is generated, the request
\* is logged, and the handler sleeps inside its try block.
chat(r, uuid) ==
    /\ task[r].pc = "handler" /\ Endpoint(r) = "chat"
    /\ task' = [task EXCEPT ![r] =
            [@ EXCEPT !.pc = "chat_sleep",
                      !.trace_id = <<uuid>>,
                      !.log = Append(@, LogEntry("chat_request_received", uuid))]]
    /\ UNCHANGED settings

\* chat resumes and no statement of the try block raises.
chat_return(r) ==
    /\ task[r].pc = "chat_sleep"
    /\ LET t == task[r]
           tid == t.trace_id[1]
           text == chat_response_text(Req(r).message, t.client_config[1])
       IN  task' = [task EXCEPT ![r] =
               [@ EXCEPT !.pc = "response_ready",
                         !.log = Append(@, LogEntry("chat_request_completed", tid)),
                         !.response =
                             <<ChatResponse(text, Req(r).session_id, tid)>>]]
    /\ UNCHANGED settings

\* A statement of chat's try block raises: `except Exception` logs the failure
\* and raises HTTPException(500).
chat_except(r, msg) ==
    /\ task[r].pc = "chat_sleep"
    /\ LET tid == task[r].trace_id[1]
       IN  task' = [task EXCEPT ![r] =
               [@ EXCEPT !.pc = "response_ready",
                         !.exc = <<msg>>,
                         !.fault_at = "try",
                         !.log = Append(@, [LogEntry("chat_request_failed", tid)
                                     EXCEPT !.error = <<msg>>]),
                         !.response = <<ChatFailure(msg)>>]]
    /\ UNCHANGED settings

\* chat_stream: the trace id is generated, the request is logged, and a
\* StreamingResponse over a new generate_stream() is returned.
chat_stream(r, uuid) ==
    /\ task[r].pc = "handler" /\ Endpoint(r) = "chat_stream"
    /\ task' = [task EXCEPT ![r] =
            [@ EXCEPT !.pc = "response_ready",
                      !.trace_id = <<uuid>>,
                      !.log = Append(@,
                          LogEntry("chat_stream_request_received", uuid)),
                      !.gen = "created",
                      !.response = <<MakeResponse(200, "text/event-stream",
                          [NoBody EXCEPT !.kind = "stream"])>>]]
    /\ UNCHANGED settings

\* process_document
process_document(r, uuid) ==
    /\ task[r].pc = "handler" /\ Endpoint(r) = "process_document"
    /\ task' = [task EXCEPT ![r] =
            [@ EXCEPT !.pc = "response_ready",
                      !.trace_id = <<uuid>>,
                      !.log = Append(@, LogEntry("document_process_request", uuid)),
                      !.response = <<JSONResponse(200,
                          [NoBody EXCEPT !.kind = "document_processing",
                                         !.document_id = Req(r).document_id,
                                         !.trace_id = <<uuid>>])>>]]
    /\ UNCHANGED settings

\* get_document_status
get_document_status(r) ==
    /\ task[r].pc = "handler" /\ Endpoint(r) = "get_document_status"
    /\ task' = [task EXCEPT ![r] =
            [@ EXCEPT !.pc = "response_ready",
                      !.response = <<JSONResponse(200,
                          [NoBody EXCEPT !.kind = "document_status",
                                         !.detail = "completed",
                                         !.document_id = Req(r).document_id])>>]]
    /\ UNCHANGED settings

\* validate_client
validate_client(r) ==
    /\ task[r].pc = "handler" /\ Endpoint(r) = "validate_client"
    /\ LET api_key == Req(r).api_key[1]
       IN  task' = [task EXCEPT ![r] =
               [@ EXCEPT !.pc = "response_ready",
                         !.response = <<JSONResponse(200,
                             [NoBody EXCEPT !.kind = "client_validation",
                                 !.detail = IF KeyRejected(api_key)
                                            THEN "Invalid API key format"
                                            ELSE "valid"])>>]]
    /\ UNCHANGED settings

-----------------------------------------------------------------------------
(* generate_stream, the generator of chat_stream.  It runs once the response
   has been started, and is suspended at a yield or at the sleep between two
   chunks:
     created   not started yet
     started   at the yield of the start frame
     chunk     in the loop, after the yield of a chunk
     sources   at the yield of the sources frame
     done      at the yield of the done frame
     closed    returned
     cancelled ended by an exception its except clause does not catch       *)

\* mock_response
mock_response(message) ==
    STREAM_HEAD \o Slice(message, 0, STREAM_ECHO) \o STREAM_TAIL

\* chunk = mock_response[i:i + chunk_size]
ChunkAt(text, i) == Slice(text, i, i + chunk_size)

\* for i in range(0, len(mock_response), chunk_size): the next value of i
RangeStep(i) == i + chunk_size

\* The error payload with str(e) put between the quotes as it is
ErrorPayloadUnescaped(msg) == ERR_HEAD \o msg \o ERR_TAIL

\* json.dumps({'code': 'STREAM_ERROR', 'message': str(e)})
ErrorPayload(msg) == ERR_HEAD \o JsonEscape(msg) \o ERR_TAIL

\* A bare `except:`, which catches every class
CaughtAny(class) == TRUE

\* `except Exception`: the classes of exception the clause catches.  The
\* cancellation of a task (CancelledError) and the closing of a generator
\* (GeneratorExit) are not subclasses of Exception.
Caught(class) == class = "Exception"

Running(r) == task[r].pc = "sent" /\ task[r].response[1].media_type = "text/event-stream"

Yield(r, frame, gen) ==
    task' = [task EXCEPT ![r] =
        [@ EXCEPT !.events = Append(@, frame), !.gen = gen]]

\* The start frame carrying a trace id kept where every request writes it
gen_start_shared_trace(r) ==
    /\ Running(r) /\ task[r].gen = "created"
    /\ \E q \in DOMAIN task :
           /\ task[q].trace_id # << >>
           /\ Yield(r, Frame(EV_START, task[q].trace_id[1]), "started")
    /\ UNCHANGED settings

\* yield f"event: start\ndata: {trace_id}\n\n"
gen_start(r) ==
    /\ Running(r) /\ task[r].gen = "created"
    /\ Yield(r, Frame(EV_START, task[r].trace_id[1]), "started")
    /\ UNCHANGED settings

\* One iteration of the loop: the next chunk is yielded, and the generator
\* sleeps.
gen_chunk(r) ==
    /\ Running(r) /\ task[r].gen \in {"started", "chunk"}
    /\ LET text == mock_response(Req(r).message)
           i == task[r].i
       IN  /\ i < Len(text)
           /\ task' = [task EXCEPT ![r] =
                  [@ EXCEPT !.events = Append(@, Frame(EV_CHUNK, ChunkAt(text, i))),
                            !.i = RangeStep(i),
                            !.gen = "chunk"]]
    /\ UNCHANGED settings

\* generate_stream without its yield of the sources frame
gen_sources_omitted(r) ==
    /\ Running(r) /\ task[r].gen \in {"started", "chunk"}
    /\ ~(task[r].i < Len(mock_response(Req(r).message)))
    /\ task' = [task EXCEPT ![r] = [@ EXCEPT !.gen = "sources"]]
    /\ UNCHANGED settings

\* The loop is over: yield f"event: sources\ndata: {json.dumps([])}\n\n"
gen_sources(r) ==
    /\ Running(r) /\ task[r].gen \in {"started", "chunk"}
    /\ ~(task[r].i < Len(mock_response(Req(r).message)))
    /\ Yield(r, Frame(EV_SOURCES, EMPTY_SOURCES), "sources")
    /\ UNCHANGED settings

\* yield "event: done\ndata: [DONE]\n\n"
gen_done(r) ==
    /\ Running(r) /\ task[r].gen = "sources"
    /\ Yield(r, Frame(EV_DONE, DONE_SENTINEL), "done")
    /\ UNCHANGED settings

\* The completion is logged and the generator returns.
gen_return(r) ==
    /\ Running(r) /\ task[r].gen = "done"
    /\ task' = [task EXCEPT ![r] =
            [@ EXCEPT !.gen = "closed",
                      !.log = Append(@, LogEntry("chat_stream_completed",
                                                 task[r].trace_id[1]))]]
    /\ UNCHANGED settings

\* The except clause of generate_stream: the error is logged, the error frame
\* is yielded, and the generator returns.
StreamExcept(t, msg) ==
    [t EXCEPT !.gen = "closed",
              !.exc = <<msg>>,
              !.log = Append(@, [LogEntry("chat_stream_error", t.trace_id[1])
                          EXCEPT !.error = <<msg>>]),
              !.events = Append(@, Frame(EV_ERROR, ErrorPayload(msg)))]

\* A statement of the try block raises an Exception where the generator
\* resumes: after the start frame, in the loop, after the sources frame, or
\* after the done frame (the completion log).
gen_raises(r, msg) ==
    /\ Running(r) /\ task[r].gen \in {"started", "chunk", "sources", "done"}
    /\ LET t == [task[r] EXCEPT !.fault_at = task[r].gen]
       IN  task' = [task EXCEPT ![r] =
               IF Caught("Exception") THEN StreamExcept(t, msg)
               ELSE [t EXCEPT !.gen = "cancelled", !.exc = <<msg>>]]
    /\ UNCHANGED settings

\* The client goes away while the response is being streamed.
disconnect(r) ==
    /\ Running(r) /\ task[r].connected
    /\ task[r].gen \in {"created", "started", "chunk", "sources", "done"}
    /\ task' = [task EXCEPT ![r] = [@ EXCEPT !.connected = FALSE]]
    /\ UNCHANGED settings

\* The server observes the disconnect and cancels the streaming task.  A
\* generator that has not started is dropped; one suspended inside its try
\* block is ended there by CancelledError (at the sleep) or GeneratorExit (at
\* a yield), which the except clause handles only if it catches that class.
cancel(r) ==
    /\ Running(r) /\ ~task[r].connected
    /\ task[r].gen \in {"created", "started", "chunk", "sources", "done"}
    /\ LET t == [task[r] EXCEPT !.observed = TRUE]
       IN  task' = [task EXCEPT ![r] =
               IF t.gen # "created" /\ Caught("CancelledError")
               THEN StreamExcept(t, <<"c", "a", "n", "c", "e", "l">>)
               ELSE [t EXCEPT !.gen = "cancelled"]]
    /\ UNCHANGED settings

-----------------------------------------------------------------------------
(* The specification *)

Next ==
    \E r \in Tasks :
        \/ \E req \in Requests, now_ms \in ClockReadings :
               log_requests(r, req, now_ms)
        \/ solve_dependencies(r)
        \/ log_requests_return(r)
        \/ global_exception_handler(r)
        \/ root(r)
        \/ health(r)
        \/ \E uuid \in Uuids, msg \in FaultMessages : handler_raises(r, uuid, msg)
        \/ \E uuid \in Uuids : chat(r, uuid)
        \/ chat_return(r)
        \/ \E msg \in FaultMessages : chat_except(r, msg)
        \/ \E uuid \in Uuids : chat_stream(r, uuid)
        \/ \E uuid \in Uuids : process_document(r, uuid)
        \/ get_document_status(r)
        \/ validate_client(r)
        \/ gen_start(r)
        \/ gen_chunk(r)
        \/ gen_sources(r)
        \/ gen_done(r)
        \/ gen_return(r)
        \/ \E msg \in FaultMessages : gen_raises(r, msg)
        \/ disconnect(r)
        \/ cancel(r)

Spec == Init /\ [][Next]_vars

-----------------------------------------------------------------------------
(* Properties *)

\* The names of the events task r has emitted, in order
Names(r) == [k \in 1..Len(task[r].events) |-> EventName(task[r].events[k])]

\* How often name occurs in the sequence names
Count(names, name) == Cardinality({k \in 1..Len(names) : names[k] = name})

Repeat(x, n) == [k \in 1..n |-> x]

\* C1: a stream in which no fault occurs and whose client stays connected emits
\* one start event carrying the trace id, then chunk events only, then one
\* sources event, then one done event, and nothing else; when the generator has
\* returned, all of them have been emitted.
C1_FaultFreeStreamOrder ==
    \A r \in Tasks :
        LET t == task[r]
            n == Names(r)
            chunks == Repeat(EV_CHUNK, Count(n, EV_CHUNK))
        IN  (t.exc = << >> /\ t.connected /\ n # << >>) =>
                /\ Payload(t.events[1]) = t.trace_id[1]
                /\ \/ n = <<EV_START>> \o chunks /\ t.gen # "closed"
                   \/ n = <<EV_START>> \o chunks \o <<EV_SOURCES>>
                        /\ t.gen # "closed"
                   \/ n = <<EV_START>> \o chunks \o <<EV_SOURCES, EV_DONE>>

\* A stream that completed without a fault, its client connected to the end
C1_Witness ==
    \E r \in Tasks :
        /\ task[r].gen = "closed" /\ task[r].exc = << >> /\ task[r].connected
        /\ Count(Names(r), EV_CHUNK) >= 2
        /\ Count(Names(r), EV_DONE) = 1

\* The positions of the terminal events, done and error, in names
Terminals(names) ==
    {k \in 1..Len(names) : names[k] \in {EV_DONE, EV_ERROR}}

\* C2: whatever point a fault is raised at, a stream begins with exactly one
\* start event, has at most one terminal event (done or error, never both),
\* emits nothing after it, and has emitted it when the generator has returned.
C2_ExactlyOneTerminal ==
    \A r \in Tasks :
        LET n == Names(r)
        IN  n # << >> =>
                /\ n[1] = EV_START /\ Count(n, EV_START) = 1
                /\ Cardinality(Terminals(n)) <= 1
                /\ \A k \in Terminals(n) : k = Len(n)
                /\ task[r].gen = "closed" => Cardinality(Terminals(n)) = 1

\* The payloads of the chunk events task r has emitted, in order
ChunkPayloads(r) ==
    LET fs == SelectNamed(task[r].events, EV_CHUNK)
    IN  [k \in 1..Len(fs) |-> Payload(fs[k])]

\* C3: the payloads of the chunk events of a completed stream, concatenated in
\* the order of emission, are exactly the response text.
C3_ChunkPayloadsReconstructText ==
    \A r \in Tasks :
        (task[r].gen = "closed" /\ task[r].exc = << >>) =>
            Concat(ChunkPayloads(r)) = mock_response(Req(r).message)

\* The substrings generate_stream puts into its chunk frames are the
\* consecutive slices of the text, chunk_size characters each but the last,
\* and together they are the text: what is lost is lost by the framing.
ChunkSlicesCoverText ==
    \A r \in Tasks :
        LET fs == SelectNamed(task[r].events, EV_CHUNK)
            text == mock_response(Req(r).message)
            slice(k) == SubSeq(text, (k - 1) * chunk_size + 1,
                               Min(k * chunk_size, Len(text)))
        IN  /\ \A k \in 1..Len(fs) : fs[k] = Frame(EV_CHUNK, slice(k))
            /\ (task[r].gen = "closed" /\ task[r].exc = << >>) =>
                   Concat([k \in 1..Len(fs) |-> slice(k)]) = text

EndsWith(s, p) ==
    Len(s) >= Len(p) /\ SubSeq(s, Len(s) - Len(p) + 1, Len(s)) = p

\* C4: when a fault is raised in the generator after the start event and before
\* the done event, the stream ends with exactly one error event, whose payload
\* is the whole JSON object with the code and the message; no done event is
\* emitted and nothing follows the error event.
C4_FaultBeforeDoneEndsWithError ==
    \A r \in Tasks :
        LET t == task[r]
            n == Names(r)
            last == t.events[Len(t.events)]
        IN  t.fault_at \in {"started", "chunk", "sources"} =>
                /\ t.gen = "closed"
                /\ n[Len(n)] = EV_ERROR
                /\ Count(n, EV_ERROR) = 1 /\ Count(n, EV_DONE) = 0
                /\ WellFormed(last)
                /\ StartsWith(Payload(last), ERR_HEAD)
                /\ EndsWith(Payload(last), ERR_TAIL)

\* A fault in the loop, after some chunks, whose message holds a newline
C4_Witness ==
    \E r \in Tasks :
        /\ task[r].fault_at = "chunk"
        /\ Count(Names(r), EV_CHUNK) >= 2
        /\ Names(r)[Len(Names(r))] = EV_ERROR
        /\ \E k \in 1..Len(task[r].exc[1]) : task[r].exc[1][k] = "\n"

\* The entries logged for task r by a route handler: all but the middleware's
HandlerLog(r) ==
    SelectSeq(task[r].log, LAMBDA e : e.event # "http_request")

\* The route handler of task r has had no effect: it was not called, no trace
\* id was generated, nothing was logged by it and no stream was started.
NoHandlerEffect(r) ==
    /\ ~task[r].called
    /\ task[r].trace_id = << >>
    /\ HandlerLog(r) = << >>
    /\ task[r].gen = "none" /\ task[r].events = << >>

\* An x-api-key header that is present, not empty and begins with pk_
KeyWellFormed(header) ==
    /\ header # << >>
    /\ Len(header[1]) >= 3
    /\ header[1][1] = "p" /\ header[1][2] = "k" /\ header[1][3] = "_"

\* C5: a request to chat or chat_stream whose x-api-key header is missing, empty
\* or not prefixed with pk_ is answered with 401, and its handler has no effect.
C5_BadKeyIsUnauthorized ==
    \A r \in Tasks :
        (Endpoint(r) \in {"chat", "chat_stream"}
            /\ ~KeyWellFormed(Req(r).x_api_key)) =>
            /\ NoHandlerEffect(r)
            /\ task[r].response # << >> =>
                   task[r].response[1].status_code = 401

\* C6: every response sent carries a non-empty X-Request-ID header, equal to
\* the request's X-Request-ID header when the request has one.
C6_EveryResponseCarriesRequestId ==
    \A r \in Tasks :
        task[r].pc = "sent" =>
            LET header == task[r].response[1].x_request_id
            IN  /\ header # << >>
                /\ header[1] # << >>
                /\ Req(r).x_request_id # << >> => header = Req(r).x_request_id

InternalEndpoints ==
    {"process_document", "get_document_status", "validate_client"}

\* C7: the handlers of process_document, get_document_status and
\* validate_client are called only for a request whose X-Internal-Secret header
\* is exactly the configured secret; any other request, the header absent
\* included, is answered with 401 and its handler has no effect.
C7_InternalSecretGatesHandlers ==
    \A r \in Tasks :
        Endpoint(r) \in InternalEndpoints =>
            LET header == Req(r).x_internal_secret
                exact == header = <<settings.internal_api_secret>>
            IN  /\ task[r].called => exact
                /\ ~exact =>
                       /\ NoHandlerEffect(r)
                       /\ task[r].response # << >> =>
                              /\ task[r].response[1].status_code = 401
                              /\ task[r].response[1].body.kind = "http_exception"

\* process_document has answered a request that carried the secret
C7_Witness ==
    \E r \in Tasks :
        /\ Endpoint(r) = "process_document" /\ task[r].pc = "sent"
        /\ task[r].called
        /\ task[r].response[1].body.kind = "document_processing"

BodyWellFormed(req) ==
    /\ Len(req.message) \in 1..2000
    /\ Len(req.session_id) = 36
    /\ \A k \in 1..Len(req.session_id) : req.session_id[k] \in SID_CHARS

\* C9: the handlers of chat and chat_stream are called only for a request whose
\* key and body are both valid; any other request is answered with a client
\* error, and its handler has no effect.
C9_HandlerStartsAfterValidation ==
    \A r \in Tasks :
        Endpoint(r) \in {"chat", "chat_stream"} =>
            LET valid == KeyWellFormed(Req(r).x_api_key) /\ BodyWellFormed(Req(r))
            IN  /\ task[r].called => valid
                /\ ~valid =>
                       /\ NoHandlerEffect(r)
                       /\ task[r].response # << >> =>
                              task[r].response[1].status_code \in {401, 422}

\* A chat request with a good key and a malformed session id was rejected
C9_Witness ==
    \E r \in Tasks :
        /\ Endpoint(r) = "chat" /\ task[r].pc = "sent"
        /\ KeyWellFormed(Req(r).x_api_key)
        /\ "body.session_id" \in task[r].response[1].body.errors
        /\ ~task[r].called

Logged(r, event, id) ==
    \E k \in 1..Len(task[r].log) :
        task[r].log[k].event = event /\ task[r].log[k].id = id

\* C10: in chat, a fault raised in the try block is logged with the trace id
\* and answered with 500 and a fixed message; without a fault the response
\* carries the request's session id and the trace id that was logged.
C10_ChatFaultsGenericAndTraced ==
    \A r \in Tasks :
        LET t == task[r] IN
        (Endpoint(r) = "chat" /\ t.called /\ t.response # << >>) =>
            LET resp == t.response[1] IN
            /\ t.fault_at = "try" =>
                   /\ resp.status_code = 500
                   /\ resp.body = [NoBody EXCEPT !.kind = "http_exception",
                          !.detail = "Failed to process chat request"]
                   /\ \E k \in 1..Len(t.log) :
                          /\ t.log[k].event = "chat_request_failed"
                          /\ t.log[k].id = t.trace_id[1]
                          /\ t.log[k].error = t.exc
            /\ t.exc = << >> =>
                   /\ resp.status_code = 200 /\ resp.body.kind = "chat"
                   /\ resp.body.session_id = <<Req(r).session_id>>
                   /\ resp.body.trace_id # << >>
                   /\ Logged(r, "chat_request_received", resp.body.trace_id[1])
                   /\ Logged(r, "chat_request_completed", resp.body.trace_id[1])

\* chat has answered a request whose try block raised
C10_Witness ==
    \E r \in Tasks :
        /\ Endpoint(r) = "chat" /\ task[r].pc = "sent"
        /\ task[r].fault_at = "try"
        /\ task[r].response[1].status_code = 500

-----------------------------------------------------------------------------
(* Streaming requests handled concurrently: two tasks, each with a request
   that is accepted by chat_stream, interleaved at every suspension point. *)

StreamTasks == {1, 2}

\* Accepted chat_stream requests, with messages that differ in the text the
\* stream echoes
StreamRequests ==
    { [BaseRequest EXCEPT !.endpoint = "chat_stream",
                          !.x_request_id = << <<"a", "b", "c">> >>,
                          !.x_api_key = <<PK_PREFIX \o <<"1">> >>,
                          !.message = Message(n), !.session_id = SID_OK] :
        n \in {5, 9} }

StreamFaultMessages == { <<"b", "o", "o", "m">> }

InitStreams ==
    /\ settings = [internal_api_secret |-> DEFAULT_SECRET]
    /\ task = [r \in StreamTasks |-> IdleTask]

NextStreams ==
    \E r \in StreamTasks :
        \/ \E req \in StreamRequests, now_ms \in ClockReadings :
               log_requests(r, req, now_ms)
        \/ solve_dependencies(r)
        \/ \E uuid \in Uuids : chat_stream(r, uuid)
        \/ log_requests_return(r)
        \/ gen_start(r)
        \/ gen_chunk(r)
        \/ gen_sources(r)
        \/ gen_done(r)
        \/ gen_return(r)
        \/ \E msg \in StreamFaultMessages : gen_raises(r, msg)
        \/ disconnect(r)
        \/ cancel(r)

SpecStreams == InitStreams /\ [][NextStreams]_vars

\* The frames a stream for this message and trace id emits when it is the only
\* one and runs to its end without a fault
AloneFrames(message, trace_id) ==
    LET text == mock_response(message)
        count == (Len(text) + chunk_size - 1) \div chunk_size
    IN  <<Frame(EV_START, trace_id)>>
        \o [k \in 1..count |->
               Frame(EV_CHUNK, SubSeq(text, (k - 1) * chunk_size + 1,
                                      Min(k * chunk_size, Len(text))))]
        \o <<Frame(EV_SOURCES, EMPTY_SOURCES), Frame(EV_DONE, DONE_SENTINEL)>>

IsPrefix(s, t) == Len(s) <= Len(t) /\ s = SubSeq(t, 1, Len(s))

\* C11: with streams interleaved, the events of each are those it emits when
\* handled alone: a prefix of the frames for its own message and trace id, all
\* of them once it has returned without a fault, and after a fault that prefix
\* followed by the error frame for its own fault.
C11_StreamsIndependent ==
    \A r \in DOMAIN task :
        LET t == task[r]
            ev == t.events
        IN  ev # << >> =>
                LET alone == AloneFrames(Req(r).message, t.trace_id[1])
                IN  IF t.exc = << >>
                    THEN /\ IsPrefix(ev, alone)
                         /\ t.gen = "closed" => ev = alone
                    ELSE /\ IsPrefix(SubSeq(ev, 1, Len(ev) - 1), alone)
                         /\ ev[Len(ev)] = Frame(EV_ERROR, ErrorPayload(t.exc[1]))

\* Two streams suspended in their loops at once, with different messages and
\* trace ids, both past the chunk where the echoed messages make them differ
C11_Witness ==
    /\ DOMAIN task = StreamTasks
    /\ \A r \in StreamTasks :
           /\ task[r].gen = "chunk" /\ Count(Names(r), EV_CHUNK) >= 7
           /\ task[r].connected
    /\ Req(1).message # Req(2).message
    /\ task[1].trace_id # task[2].trace_id
    /\ task[1].events[8] # task[2].events[8]

=============================================================================
